---- MODULE Spec2Model ----
(***************************************************************************)
(* zipurat: the archive builder (archiver.rs), the index codec             *)
(* (serializer.rs), the reader (index.rs, restore.rs) and the              *)
(* compress/encrypt pipeline (utils.rs), as one state machine.             *)
(*                                                                         *)
(* A path is a sequence of components, the root is <<>>.  A file's content *)
(* is a sequence of bytes.  The archive is a sequence of cells, one per    *)
(* byte: a raw byte b is <<0, b, 0>>; the k-th of the n bytes of the       *)
(* encrypted stream number s is <<s, k, n>>, and plain[s] is what that     *)
(* stream decrypts and decompresses to.                                    *)
(***************************************************************************)
EXTENDS Integers, Sequences, FiniteSets, TLC

\* ------------------------------------------------------------- bounds
\* Largest byte value a source file holds.
MaxByte == 2
\* Longest encrypted+compressed stream, in archive bytes.
MaxChunkLen == 2

\* ------------------------------------------------------------- helpers
Range(s) == {s[k] : k \in DOMAIN s}

Min(a, b) == IF a < b THEN a ELSE b

Perms(S) == {s \in [1..Cardinality(S) -> S] : \A a, b \in DOMAIN s : s[a] = s[b] => a = b}

RECURSIVE SumSeq(_)
SumSeq(s) == IF s = <<>> THEN 0 ELSE s[1] + SumSeq(Tail(s))

\* HashMap::insert
Put(m, k, v) == [x \in (DOMAIN m) \cup {k} |-> IF x = k THEN v ELSE m[x]]

\* Some iteration order of a HashMap's keys.
RECURSIVE KeySeq(_)
KeySeq(S) == IF S = {} THEN <<>> ELSE LET x == CHOOSE y \in S : TRUE IN <<x>> \o KeySeq(S \ {x})

NoPath == <<"?">>

\* ------------------------------------------------------------- source tree
FilePaths == {<<"a">>, <<"d", "b">>, <<"d", "c">>}
DirPaths == {<<"d">>, <<"e">>, <<"e", "f">>}
OtherPaths == {<<"e", "s">>}
Contents == {<<>>} \cup {<<b>> : b \in 0..MaxByte}

\* Path::parent
Parent(p) == SubSeq(p, 1, Len(p) - 1)

\* Path::starts_with
StartsWith(p, prefix) == Len(prefix) <= Len(p) /\ SubSeq(p, 1, Len(prefix)) = prefix

\* Faulty variant: the prefix stays.
strip_prefix_kept(p, prefix) == p

\* Path::strip_prefix
StripPrefix(p, prefix) == SubSeq(p, Len(prefix) + 1, Len(p))

\* The source tree: content of each regular file, the directories, and the
\* objects that are neither.
VARIABLES files, dirs, others

treeVars == <<files, dirs, others>>

WellFormedTree(f, d, o) ==
    \A p \in (DOMAIN f) \cup d \cup o : Len(p) > 1 => Parent(p) \in d

\* fs::read_dir
ReadDir(dir) == {p \in (DOMAIN files) \cup dirs \cup others : Len(p) > 0 /\ Parent(p) = dir}

RECURSIVE recurse_dir_files(_)
recurse_dir_files(dir) ==
    UNION {IF path \in dirs THEN recurse_dir_files(path)
           ELSE IF path \in DOMAIN files THEN {StripPrefix(path, <<>>)}
           ELSE {} : path \in ReadDir(dir)}

list_all_files_recursive == recurse_dir_files(<<>>)

RECURSIVE recurse_dir_empties(_)
recurse_dir_empties(dir) ==
    UNION {IF path \in dirs
           THEN IF ReadDir(path) = {} THEN {StripPrefix(path, <<>>)}
                ELSE recurse_dir_empties(path)
           ELSE {} : path \in ReadDir(dir)}

list_all_empty_dirs == recurse_dir_empties(<<>>)

\* ------------------------------------------------------------- content hash
\* A 32-byte digest is modelled by a digest that collides: equal bytes give
\* equal digests, and some different contents share one.
blake3_hash_streaming(bytes) == (SumSeq(bytes)) % 2

\* ------------------------------------------------------------- u64 codec
\* A u64 beyond TLC's 32-bit integers is kept as the sequence of its decimal
\* digits, as the source writes it.
magic_number == <<1,2,2,1,9,6,7,8,1,3,9,6,0,0,7,0,6,3,3,3>>

\* One long division of a digit sequence by 256: <<quotient digits, remainder>>.
RECURSIVE DivDigits(_, _, _)
DivDigits(digits, base, carry) ==
    IF digits = <<>> THEN <<<<>>, carry>>
    ELSE LET cur == carry * base + digits[1]
             rest == DivDigits(Tail(digits), base, cur % 256)
         IN <<(<<cur \div 256>>) \o rest[1], rest[2]>>

\* u64::to_le_bytes of a number given by its digits in `base`.
RECURSIVE DigitsToLe(_, _, _)
DigitsToLe(digits, base, n) ==
    IF n = 0 THEN <<>>
    ELSE LET qr == DivDigits(digits, base, 0)
         IN <<qr[2]>> \o DigitsToLe(qr[1], base, n - 1)

\* magic_number.to_le_bytes()
magic_le == DigitsToLe(magic_number, 10, 8)

\* u64::to_le_bytes of a small number.
RECURSIVE to_le_bytes(_, _)
to_le_bytes(v, n) == IF n = 0 THEN <<>> ELSE <<v % 256>> \o to_le_bytes(v \div 256, n - 1)

Raw(b) == <<0, b, 0>>
IsRaw(cell) == cell[1] = 0

\* <u64 as SimpleBinRepr>::write_bin
u64_write_bin(bytes) == [k \in 1..Len(bytes) |-> Raw(bytes[k])]

\* ------------------------------------------------------------- pipeline
\* compress_and_encrypt: the stream number s written as n archive bytes.
compress_and_encrypt(s, n) == [k \in 1..n |-> <<s, k, n>>]

\* ------------------------------------------------------------- builder
BUF_SIZE == 8192

RECURSIVE files_equal_from(_, _, _)
files_equal_from(a, b, pos) ==
    LET n1 == Min(BUF_SIZE, Len(a) - Min(pos, Len(a)))
        n2 == Min(BUF_SIZE, Len(b) - Min(pos, Len(b)))
    IN IF n1 # n2 THEN FALSE
       ELSE IF n1 = 0 THEN TRUE
       ELSE IF SubSeq(a, pos + 1, pos + n1) # SubSeq(b, pos + 1, pos + n2) THEN FALSE
       ELSE files_equal_from(a, b, pos + n1)

\* Faulty variant: the digest alone decides.
files_equal_unchecked(a, b) == TRUE

\* archiver.rs:174-192.  A read of a regular file fills the buffer up to the
\* end of the file.
files_equal(a, b) == files_equal_from(a, b, 0)

\* The candidates of archiver.rs:116-119 and the loop over them: the first
\* already-written path with the same digest and the same bytes, or NoPath.
RECURSIVE first_equal(_, _, _)
first_equal(cands, in_path, k) ==
    IF k > Len(cands) THEN NoPath
    ELSE IF files_equal(files[in_path], files[cands[k]]) THEN cands[k]
    ELSE first_equal(cands, in_path, k + 1)

\* Faulty variant: no partner is ever found.
dedup_partner_none(dedup, in_path, hash) == NoPath

dedup_partner(dedup, in_path, hash) ==
    LET idx == {k \in DOMAIN dedup : dedup[k][2] = hash}
        RECURSIVE Filter(_)
        Filter(k) == IF k > Len(dedup) THEN <<>>
                     ELSE (IF k \in idx THEN <<dedup[k][1]>> ELSE <<>>) \o Filter(k + 1)
    IN first_equal(Filter(1), in_path, 1)

\* ------------------------------------------------------------- index codec
\* <Index as SimpleBinRepr>::write_bin: five length-prefixed sequences, in the
\* order the code writes them.  The iteration order of a HashMap is arbitrary;
\* KeySeq fixes one.
write_bin(idx) ==
    LET his == KeySeq(DOMAIN idx.hashes)
        paths == KeySeq(DOMAIN idx.mapping)
    IN IF \E k \in DOMAIN his : his[k] \notin DOMAIN idx.sizes
       THEN [ok |-> FALSE, hash_indices |-> <<>>, hashes |-> <<>>, sizes |-> <<>>,
             map_indices |-> <<>>, maps |-> <<>>]
       ELSE [ok |-> TRUE,
             hash_indices |-> his,
             hashes |-> [k \in DOMAIN his |-> idx.hashes[his[k]]],
             sizes |-> [k \in DOMAIN his |-> idx.sizes[his[k]]],
             map_indices |-> [k \in DOMAIN paths |-> idx.mapping[paths[k]]],
             maps |-> paths]

\* keys.into_iter().zip(values).collect::<HashMap>(): a later pair wins.
ZipCollect(keys, values) ==
    [x \in Range(keys) |->
        values[CHOOSE k \in DOMAIN keys :
                  keys[k] = x /\ \A j \in DOMAIN keys : keys[j] = x => j <= k]]

\* <Index as SimpleBinRepr>::read_bin: the index it builds has the three
\* fields the code names.
read_bin(ser) ==
    IF Len(ser.hash_indices) # Len(ser.hashes) THEN [ok |-> FALSE, index |-> <<>>]
    ELSE IF Len(ser.hash_indices) # Len(ser.sizes) THEN [ok |-> FALSE, index |-> <<>>]
    ELSE IF Len(ser.map_indices) # Len(ser.maps) THEN [ok |-> FALSE, index |-> <<>>]
    ELSE [ok |-> TRUE,
          index |-> [hashes |-> ZipCollect(ser.hash_indices, ser.hashes),
                     sizes |-> ZipCollect(ser.hash_indices, ser.sizes),
                     mapping |-> ZipCollect(ser.maps, ser.map_indices)]]

\* ------------------------------------------------------------- reader
\* decrypt_and_decompress: source.take(len) from position pos must be exactly
\* one whole encrypted stream; anything cut, extended or altered is refused.
decrypt_and_decompress(arch, pos, len) ==
    LET taken == SubSeq(arch, pos + 1, Min(pos + len, Len(arch)))
    IN IF /\ Len(taken) > 0
          /\ taken[1][1] # 0
          /\ taken[1][3] = Len(taken)
          /\ \A k \in DOMAIN taken : taken[k] = <<taken[1][1], k, Len(taken)>>
       THEN [ok |-> TRUE, stream |-> taken[1][1]]
       ELSE [ok |-> FALSE, stream |-> 0]

\* u64::from_le_bytes of a value below 2^24
from_le_bytes(bytes) == bytes[1] + 256 * bytes[2] + 65536 * bytes[3]

\* Faulty variant: the eight bytes just read are not accounted for.
parse_seek_no_read(end, index_offset) == (end - 16) - index_offset - 8

\* index.rs:25-27: SeekFrom::End(-16), eight bytes read, then
\* SeekFrom::Current(-(index_offset) - 8).
parse_seek(end, index_offset) == ((end - 16) + 8) - index_offset - 8

ParseErr == [ok |-> FALSE, index |-> <<>>, pos |-> 0, len |-> 0]

\* Index::parse.  Eight bytes that are ciphertext, or a length of 2^24 or
\* more, send the seek outside the archive or the decryptor into bytes that
\* are no stream: the open fails.
parse(arch, streams) ==
    LET end == Len(arch)
    IN IF end < 16 THEN ParseErr
       ELSE LET cells == SubSeq(arch, end - 16 + 1, end - 8)
            IN IF \E k \in 1..8 : ~IsRaw(cells[k]) THEN ParseErr
               ELSE IF \E k \in 4..8 : cells[k][2] # 0 THEN ParseErr
               ELSE LET index_offset == from_le_bytes([k \in 1..8 |-> cells[k][2]])
                        pos == parse_seek(end, index_offset)
                        dec == decrypt_and_decompress(arch, pos, index_offset)
                    IN IF pos < 0 THEN ParseErr
                       ELSE IF ~dec.ok THEN ParseErr
                       ELSE IF streams[dec.stream].kind # "index" THEN ParseErr
                       ELSE LET deser == read_bin(streams[dec.stream].body)
                            IN [ok |-> deser.ok, index |-> deser.index,
                                pos |-> pos, len |-> index_offset]

StreamErr == [ok |-> FALSE, data |-> <<>>]

\* Faulty variant: off by one.
stream_seek_next(i) == i + 1

\* restore.rs:39: archive.seek(SeekFrom::Start(i))
stream_seek(i) == i

\* stream_file, with Index::index_length_and_hash
stream_file(arch, streams, from, idx) ==
    IF from \notin DOMAIN idx.mapping THEN StreamErr
    ELSE IF idx.mapping[from][1] \notin DOMAIN idx.hashes THEN StreamErr
    ELSE LET dec == decrypt_and_decompress(arch, stream_seek(idx.mapping[from][1]),
                                           idx.mapping[from][2])
         IN IF ~dec.ok THEN StreamErr
            ELSE IF streams[dec.stream].kind # "file" THEN StreamErr
            ELSE [ok |-> TRUE, data |-> streams[dec.stream].body]

\* Faulty variant: empty files get no size.
record_size_nonempty(s, at, raw_size) == IF raw_size = 0 THEN s ELSE Put(s, at, raw_size)

\* archiver.rs:136: sizes.insert(current_index, raw_size)
record_size(s, at, raw_size) == Put(s, at, raw_size)

\* Faulty variant: the cursor is not advanced.
next_cursor_stuck(cursor, chunk_len) == cursor

\* archiver.rs:142: current_index += chunk_len
next_cursor(cursor, chunk_len) == cursor + chunk_len

\* build_archive's locals (archiver.rs:78-92, 153-165) and its position pc;
\* the archive's bytes and the plaintext of each stream written to it; the
\* reader of show_command (cli.rs:218-236): its position rd_pc, the parsed
\* index, the seek and length Index::parse used, and the last streamed
\* output; tamper: what happened to the archive outside the program.
VARIABLES pc, file_list, empty_dirs, i, hashes, dedup_hashes, mapping, sizes,
          current_index, index, index_offset, archive, plain,
          rd_pc, rd_index, rd_seek, out, tamper

buildVars == <<pc, file_list, empty_dirs, i, hashes, dedup_hashes, mapping, sizes,
               current_index, index, index_offset>>

readVars == <<rd_pc, rd_index, rd_seek, out>>

NoIndex == [mapping |-> <<>>, hashes |-> <<>>, sizes |-> <<>>,
            magic_number |-> <<>>, empty_dirs |-> <<>>]

NoOut == [path |-> NoPath, ok |-> FALSE, data |-> <<>>]

\* archive.stream_position() of the append-only writer
stream_position == Len(archive)

\* The location the archive is written to: whether something is there, and
\* which GenericFile variant opens it (cli.rs:107-112).
\* run counts the invocations of the create command on that location.
VARIABLES target_exists, variant, run

openVars == <<target_exists, variant, run>>

\* An Index held by a command that queries it (cli.rs:253-283, du and find
\* commands), and the last query with its result.
VARIABLES q_index, q

queryVars == <<q_index, q>>

NoQuery == [op |-> "none", arg |-> <<>>, ok |-> FALSE, val |-> 0]

\* ZipuratFS (fuse.rs:22-32): the index it serves, the inode table, the
\* full-body cache with its two budgets, the head cache and the listing
\* cache, the lookup cache and the attribute cache; reply is the last callback
\* with what it replied, and evicted the paths the last callback removed from
\* the full-body cache, oldest first.
VARIABLES fs_index, ino_table, read_cache, head_cache, listing_cache,
          max_file_size, max_file_number, reply, evicted, lookup_cache, attribute_cache

attrCaches == <<lookup_cache, attribute_cache>>

fuseVars == <<fs_index, ino_table, read_cache, head_cache, listing_cache,
              max_file_size, max_file_number, reply, evicted, attrCaches>>

NoReply == [op |-> "none", ino |-> 0, offset |-> 0, size |-> 0, kind |-> "none", data |-> <<>>]

\* restore_command (restore.rs:14-102): the index it parsed, its arguments
\* from and trust, the destination's files and directories, the children of
\* copy_directory with the position of its loop, what the loop did with each
\* child so far, and the number of restore commands run.
VARIABLES r_index, r_from, trust, dest, dest_dirs, r_pc, r_children, r_i, r_log, r_run

restoreVars == <<r_index, r_from, trust, dest, dest_dirs, r_pc, r_children, r_i, r_log, r_run>>

extVars == <<openVars, queryVars, fuseVars, restoreVars>>

coreVars == <<treeVars, buildVars, archive, plain, readVars, tamper>>

vars == <<treeVars, buildVars, archive, plain, readVars, tamper, extVars>>

\* build_archive's locals before it runs, and a reader that has not opened
\* anything.
Idle ==
    /\ file_list = <<>>
    /\ empty_dirs = <<>>
    /\ i = 0
    /\ hashes = <<>>
    /\ dedup_hashes = <<>>
    /\ mapping = <<>>
    /\ sizes = <<>>
    /\ current_index = 0
    /\ index = NoIndex
    /\ index_offset = 0
    /\ rd_pc = "closed"
    /\ rd_index = <<>>
    /\ rd_seek = <<0, 0>>
    /\ out = NoOut
    /\ tamper = "none"

\* No command holds an index to query.
QueryIdle ==
    /\ q_index = NoIndex
    /\ q = NoQuery

\* Nothing is mounted.
FuseIdle ==
    /\ fs_index = NoIndex
    /\ ino_table = <<>>
    /\ read_cache = <<>>
    /\ head_cache = <<>>
    /\ listing_cache = <<>>
    /\ max_file_size = 0
    /\ max_file_number = 0
    /\ reply = NoReply
    /\ evicted = <<>>
    /\ lookup_cache = <<>>
    /\ attribute_cache = <<>>

\* No restore command has run.
RestoreIdle ==
    /\ r_index = NoIndex
    /\ r_from = <<>>
    /\ trust = FALSE
    /\ dest = <<>>
    /\ dest_dirs = {}
    /\ r_pc = "idle"
    /\ r_children = <<>>
    /\ r_i = 0
    /\ r_log = <<>>
    /\ r_run = 0

\* Before build_archive runs: the archive was just created, empty.
Fresh ==
    /\ pc = "start"
    /\ archive = <<>>
    /\ plain = <<>>
    /\ target_exists = TRUE
    /\ variant = "Local"
    /\ run = 1
    /\ Idle

\* Source trees of up to three files, in the root and in a directory d; d may
\* be empty.
Init ==
    /\ files \in UNION {[S -> Contents] : S \in SUBSET FilePaths}
    /\ dirs \in SUBSET {<<"d">>}
    /\ others = {}
    /\ WellFormedTree(files, dirs, others)
    /\ Fresh
    /\ QueryIdle
    /\ FuseIdle
    /\ RestoreIdle

\* archiver.rs:78-92
BuildStart ==
    /\ pc = "start"
    /\ archive' = archive \o u64_write_bin(magic_le)
    /\ file_list' \in Perms(list_all_files_recursive)
    /\ empty_dirs' \in Perms(list_all_empty_dirs)
    /\ current_index' = 8
    /\ pc' = "loop"
    /\ UNCHANGED <<treeVars, i, hashes, dedup_hashes, mapping, sizes, index,
                   index_offset, plain, readVars, tamper>>
    /\ UNCHANGED extVars

\* archiver.rs:100-151, one iteration
BuildFile ==
    /\ pc = "loop"
    /\ i < Len(file_list)
    /\ LET in_path == file_list[i + 1]
           raw_size == Len(files[in_path])
           hash == blake3_hash_streaming(files[in_path])
           partner == dedup_partner(dedup_hashes, in_path, hash)
       IN IF partner = NoPath
          THEN \E n \in 1..MaxChunkLen :
                 LET pos_start == stream_position
                     written == archive \o compress_and_encrypt(Len(plain) + 1, n)
                     chunk_len == Len(written) - pos_start
                 IN /\ hashes' = Put(hashes, current_index, hash)
                    /\ sizes' = record_size(sizes, current_index, raw_size)
                    /\ archive' = written
                    /\ plain' = Append(plain, [kind |-> "file", body |-> files[in_path]])
                    /\ mapping' = Put(mapping, in_path, <<current_index, chunk_len>>)
                    /\ dedup_hashes' = Append(dedup_hashes, <<in_path, hash>>)
                    /\ current_index' = next_cursor(current_index, chunk_len)
          ELSE /\ mapping' = Put(mapping, in_path, mapping[partner])
               /\ UNCHANGED <<hashes, sizes, archive, plain, dedup_hashes, current_index>>
    /\ i' = i + 1
    /\ UNCHANGED <<treeVars, pc, file_list, empty_dirs, index, index_offset,
                   readVars, tamper>>
    /\ UNCHANGED extVars

\* archiver.rs:153-165: the index record, serialized, compressed and encrypted
BuildIndex ==
    /\ pc = "loop"
    /\ i = Len(file_list)
    /\ LET built == [mapping |-> mapping, hashes |-> hashes, sizes |-> sizes,
                     magic_number |-> magic_number, empty_dirs |-> empty_dirs]
           index_deser == write_bin(built)
       IN /\ index_deser.ok
          /\ index' = built
          /\ \E n \in 1..MaxChunkLen :
               LET start_pos == stream_position
                   written == archive \o compress_and_encrypt(Len(plain) + 1, n)
               IN /\ archive' = written
                  /\ index_offset' = Len(written) - start_pos
          /\ plain' = Append(plain, [kind |-> "index", body |-> index_deser])
    /\ pc' = "trailer"
    /\ UNCHANGED <<treeVars, file_list, empty_dirs, i, hashes, dedup_hashes, mapping,
                   sizes, current_index, readVars, tamper>>
    /\ UNCHANGED extVars

\* Faulty variant: the trailing magic is not written.
trailer_magic_missing(a) == a \o u64_write_bin(to_le_bytes(index_offset, 8))

\* archiver.rs:166-167: index_offset.write_bin, magic_number.write_bin
trailer(a) ==
    a \o u64_write_bin(to_le_bytes(index_offset, 8))
      \o u64_write_bin(magic_le)

BuildTrailer ==
    /\ pc = "trailer"
    /\ archive' = trailer(archive)
    /\ pc' = "done"
    /\ UNCHANGED <<treeVars, file_list, empty_dirs, i, hashes, dedup_hashes, mapping,
                   sizes, current_index, index, index_offset, plain, readVars, tamper>>
    /\ UNCHANGED extVars

\* Index::parse on a finished archive
Open ==
    /\ rd_pc = "closed"
    /\ pc \in {"done", "aborted"}
    /\ LET r == parse(archive, plain)
       IN /\ rd_pc' = IF r.ok THEN "open" ELSE "failed"
          /\ rd_index' = r.index
          /\ rd_seek' = <<r.pos, r.len>>
    /\ UNCHANGED <<treeVars, buildVars, archive, plain, out, tamper>>
    /\ UNCHANGED extVars

\* stream_file of one path through the parsed index
StreamFile(from) ==
    /\ rd_pc = "open"
    /\ LET r == stream_file(archive, plain, from, rd_index)
       IN out' = [path |-> from, ok |-> r.ok, data |-> r.data]
    /\ UNCHANGED <<treeVars, buildVars, archive, plain, rd_pc, rd_index, rd_seek, tamper>>
    /\ UNCHANGED extVars

ReadPaths == FilePaths

Next ==
    \/ BuildStart
    \/ BuildFile
    \/ BuildIndex
    \/ BuildTrailer
    \/ Open
    \/ \E from \in ReadPaths : StreamFile(from)

Spec == Init /\ [][Next]_vars

\* Source trees with nested directories, empty directories and special
\* files, the files empty or one zero byte long.
InitTree ==
    /\ files \in UNION {[S -> {<<>>, <<0>>}] : S \in SUBSET FilePaths}
    /\ dirs \in SUBSET DirPaths
    /\ others \in SUBSET OtherPaths
    /\ WellFormedTree(files, dirs, others)
    /\ Fresh
    /\ QueryIdle
    /\ FuseIdle
    /\ RestoreIdle

SpecTree == InitTree /\ [][Next]_vars

\* ------------------------------------------------------------- environment
\* What can happen to an archive between its build and its reading: the
\* build is killed, the file loses its last byte, a byte of the trailing
\* magic or of a chunk is altered, or a chunk is replaced by another valid
\* stream of the same length (the recipients' keys are public).
FlipBit(b) == IF b % 2 = 0 THEN b + 1 ELSE b - 1

Interrupt ==
    /\ pc \in {"loop", "trailer"}
    /\ tamper = "none"
    /\ pc' = "aborted"
    /\ tamper' = "interrupted"
    /\ UNCHANGED <<treeVars, file_list, empty_dirs, i, hashes, dedup_hashes, mapping,
                   sizes, current_index, index, index_offset, archive, plain, readVars>>
    /\ UNCHANGED extVars

Truncate ==
    /\ pc = "done"
    /\ tamper = "none"
    /\ rd_pc = "closed"
    /\ archive' = SubSeq(archive, 1, Len(archive) - 1)
    /\ tamper' = "truncated"
    /\ UNCHANGED <<treeVars, buildVars, plain, readVars>>
    /\ UNCHANGED extVars

CorruptTrailerMagic ==
    /\ pc = "done"
    /\ tamper = "none"
    /\ rd_pc = "closed"
    /\ \E k \in {Len(archive) - 7, Len(archive)} :
         archive' = [archive EXCEPT ![k] = Raw(FlipBit(archive[k][2]))]
    /\ tamper' = "magic"
    /\ UNCHANGED <<treeVars, buildVars, plain, readVars>>
    /\ UNCHANGED extVars

CorruptChunk ==
    /\ pc = "done"
    /\ tamper = "none"
    /\ rd_pc = "closed"
    /\ \E k \in DOMAIN archive :
         /\ ~IsRaw(archive[k])
         /\ plain[archive[k][1]].kind = "file"
         /\ archive[k][2] = 1
         /\ archive' = [archive EXCEPT ![k] = <<archive[k][1], 0, archive[k][3]>>]
    /\ tamper' = "chunk"
    /\ UNCHANGED <<treeVars, buildVars, plain, readVars>>
    /\ UNCHANGED extVars

ReplaceChunk ==
    /\ pc = "done"
    /\ tamper = "none"
    /\ rd_pc = "closed"
    /\ \E s \in DOMAIN plain, c \in Contents :
         /\ plain[s].kind = "file"
         /\ c # plain[s].body
         /\ plain' = Append(plain, [kind |-> "file", body |-> c])
         /\ archive' = [k \in DOMAIN archive |->
                          IF archive[k][1] = s
                          THEN <<Len(plain) + 1, archive[k][2], archive[k][3]>>
                          ELSE archive[k]]
    /\ tamper' = "replaced"
    /\ UNCHANGED <<treeVars, buildVars, readVars>>
    /\ UNCHANGED extVars

NextT ==
    \/ BuildStart
    \/ BuildFile
    \/ BuildIndex
    \/ BuildTrailer
    \/ Interrupt
    \/ Truncate
    \/ CorruptTrailerMagic
    \/ CorruptChunk
    \/ ReplaceChunk
    \/ Open
    \/ \E from \in ReadPaths : StreamFile(from)

SpecT == Init /\ [][NextT]_vars

\* ------------------------------------------------------------- write-open
\* How many times the create command is run on one location.
MaxRuns == 2

\* What a location holds when something other than this program put it there.
OldArchive == <<Raw(7)>>

\* open_local_archive_write: File::create_new refuses an existing file and
\* leaves it alone; the error ends the command (cli.rs:150).
open_local_archive_write ==
    /\ pc = "unopened"
    /\ variant = "Local"
    /\ IF target_exists
       THEN /\ pc' = "failed"
            /\ UNCHANGED <<archive, target_exists>>
       ELSE /\ pc' = "start"
            /\ archive' = <<>>
            /\ target_exists' = TRUE
    /\ UNCHANGED <<treeVars, file_list, empty_dirs, i, hashes, dedup_hashes, mapping,
                   sizes, current_index, index, index_offset, plain, readVars, tamper,
                   variant, run, queryVars, fuseVars, restoreVars>>

\* open_remote_archive_write: Sftp::create opens write-only with truncation
\* and no exclusive flag.  The server may refuse any open (no such file,
\* permission); an open it grants leaves the file empty.
open_remote_archive_write ==
    /\ pc = "unopened"
    /\ variant = "Remote"
    /\ \/ /\ pc' = "failed"
          /\ UNCHANGED <<archive, target_exists>>
       \/ /\ pc' = "start"
          /\ archive' = <<>>
          /\ target_exists' = TRUE
    /\ UNCHANGED <<treeVars, file_list, empty_dirs, i, hashes, dedup_hashes, mapping,
                   sizes, current_index, index, index_offset, plain, readVars, tamper,
                   variant, run, queryVars, fuseVars, restoreVars>>

\* The create command is run again on the same location by a new process.
Rerun ==
    /\ pc \in {"done", "failed"}
    /\ run < MaxRuns
    /\ run' = run + 1
    /\ pc' = "unopened"
    /\ file_list' = <<>>
    /\ empty_dirs' = <<>>
    /\ i' = 0
    /\ hashes' = <<>>
    /\ dedup_hashes' = <<>>
    /\ mapping' = <<>>
    /\ sizes' = <<>>
    /\ current_index' = 0
    /\ index' = NoIndex
    /\ index_offset' = 0
    /\ UNCHANGED <<treeVars, archive, plain, readVars, tamper, target_exists, variant,
                   queryVars, fuseVars, restoreVars>>

\* The create command on a location that is free or taken, local or remote,
\* for source trees of up to two files.
InitW ==
    /\ files \in UNION {[S -> {<<>>, <<1>>}] : S \in SUBSET {<<"a">>, <<"d", "b">>}}
    /\ dirs \in SUBSET {<<"d">>}
    /\ others = {}
    /\ WellFormedTree(files, dirs, others)
    /\ pc = "unopened"
    /\ target_exists \in BOOLEAN
    /\ archive = (IF target_exists THEN OldArchive ELSE <<>>)
    /\ plain = <<>>
    /\ variant \in {"Local", "Remote"}
    /\ run = 1
    /\ Idle
    /\ QueryIdle
    /\ FuseIdle
    /\ RestoreIdle

NextW ==
    \/ open_local_archive_write
    \/ open_remote_archive_write
    \/ BuildStart
    \/ BuildFile
    \/ BuildIndex
    \/ BuildTrailer
    \/ Rerun

SpecW == InitW /\ [][NextW]_vars

\* ------------------------------------------------------------- index operations
\* OsStr::to_str: the characters of a path component, as ASCII codes.
to_str(c) ==
    CASE c = "Ab" -> <<65, 98>>
      [] c = "a" -> <<97>>
      [] c = "b" -> <<98>>
      [] c = "c" -> <<99>>
      [] c = "d" -> <<100>>
      [] c = "e" -> <<101>>
      [] c = "f" -> <<102>>
      [] c = "g" -> <<103>>
      [] OTHER -> <<63>>

\* Faulty variant: the case is kept.
to_lowercase_kept(s) == s

\* str::to_lowercase
to_lowercase(s) == [k \in DOMAIN s |-> IF s[k] >= 65 /\ s[k] <= 90 THEN s[k] + 32 ELSE s[k]]

\* str::contains
contains(hay, needle) ==
    \E off \in 0..(Len(hay) - Len(needle)) : SubSeq(hay, off + 1, off + Len(needle)) = needle

\* Path::file_name, for paths without a ".." component: none for the root.
file_name(p) == IF Len(p) = 0 THEN <<>> ELSE <<p[Len(p)]>>

\* Index::is_file
is_file(idx, path) == path \in DOMAIN idx.mapping

\* Index::is_dir
is_dir(idx, path) ==
    IF is_file(idx, path) THEN FALSE
    ELSE \E k \in DOMAIN idx.mapping : StartsWith(k, path)

RECURSIVE SumOver(_, _)
SumOver(f, S) ==
    IF S = {} THEN 0 ELSE LET x == CHOOSE y \in S : TRUE IN f[x] + SumOver(f, S \ {x})

\* Faulty variant: a chunk shared by several paths is counted once.
sum_children_by_chunk(idx, children) ==
    SumOver(idx.sizes, {idx.mapping[k][1] : k \in children})

\* index.rs:64-70: the sizes of the collected children, summed.
sum_children(idx, children) ==
    SumOver([k \in children |-> idx.sizes[idx.mapping[k][1]]], children)

\* Index::du.  The recursive call of the directory branch is made on keys of
\* mapping only, so it always takes the file branch.
du(idx, path) ==
    LET du_file(f) == IF idx.mapping[f][1] \in DOMAIN idx.sizes
                      THEN [ok |-> TRUE, val |-> idx.sizes[idx.mapping[f][1]]]
                      ELSE [ok |-> FALSE, val |-> 0]
    IN IF is_file(idx, path) THEN du_file(path)
       ELSE LET children == {k \in DOMAIN idx.mapping : StartsWith(k, path)}
            IN IF \E k \in children : ~du_file(k).ok THEN [ok |-> FALSE, val |-> 0]
               ELSE [ok |-> TRUE, val |-> sum_children(idx, children)]

\* Faulty variant: an empty directory is not recognised.
empty_dirs_contains_never(idx, subpath) == FALSE

\* index.rs:74: self.empty_dirs.contains(subpath)
empty_dirs_contains(idx, subpath) == subpath \in Range(idx.empty_dirs)

\* Iterator::map over a Vec
RECURSIVE MapSeq(_, _)
MapSeq(s, prefix) ==
    IF s = <<>> THEN <<>> ELSE <<StripPrefix(s[1], prefix)>> \o MapSeq(Tail(s), prefix)

\* Index::subindex
subindex(idx, subpath) ==
    IF empty_dirs_contains(idx, subpath)
    THEN [ok |-> TRUE,
          index |-> [hashes |-> <<>>, mapping |-> <<>>, sizes |-> <<>>,
                     empty_dirs |-> <<>>, magic_number |-> idx.magic_number]]
    ELSE IF ~is_dir(idx, subpath) THEN [ok |-> FALSE, index |-> NoIndex]
    ELSE LET pairs == {<<StripPrefix(p, subpath), idx.mapping[p]>> :
                          p \in {k \in DOMAIN idx.mapping : StartsWith(k, subpath)}}
             new_mappings == [k \in {pr[1] : pr \in pairs} |->
                                 (CHOOSE pr \in pairs : pr[1] = k)[2]]
             new_empties == MapSeq(SelectSeq(idx.empty_dirs,
                                             LAMBDA p : StartsWith(p, subpath)), subpath)
             selected == {new_mappings[k][1] : k \in DOMAIN new_mappings}
             new_hashes == [o \in {x \in DOMAIN idx.hashes : x \in selected} |-> idx.hashes[o]]
             new_sizes == [o \in {x \in DOMAIN idx.sizes : x \in selected} |-> idx.sizes[o]]
         IN [ok |-> TRUE,
             index |-> [hashes |-> new_hashes, mapping |-> new_mappings,
                        sizes |-> new_sizes, empty_dirs |-> new_empties,
                        magic_number |-> idx.magic_number]]

\* Index::get_direct_children
get_direct_children(idx, path) ==
    LET si == subindex(idx, path)
        entries == (DOMAIN si.index.mapping) \cup Range(si.index.empty_dirs)
    IN IF ~si.ok THEN [ok |-> FALSE, children |-> {}]
       ELSE IF \E e \in entries : Len(e) = 0 THEN [ok |-> FALSE, children |-> {}]
       ELSE [ok |-> TRUE, children |-> {path \o <<e[1]>> : e \in entries}]

\* Index::search
search(idx, pattern) ==
    LET pat == to_lowercase(pattern)
        cs == (DOMAIN idx.mapping) \cup Range(idx.empty_dirs)
        named(p) == file_name(p) # <<>> /\ contains(to_lowercase(to_str(file_name(p)[1])), pat)
    IN {c \in cs : named(c)} \cup {Parent(c) : c \in {x \in cs : Len(x) > 0 /\ named(Parent(x))}}

\* The paths of the indexes queried, the paths asked about, and the patterns
\* searched for: "", "a", "AB", "b", "D", "g".
QFiles == {<<"Ab">>, <<"d", "b">>, <<"d", "c">>}
QEmptyDirs == {<<"d", "g">>, <<"e">>, <<"e", "f">>}
QueryPaths == QFiles \cup QEmptyDirs \cup {<<>>, <<"d">>, <<"x">>}
Patterns == {<<>>, <<97>>, <<65, 66>>, <<98>>, <<68>>, <<103>>}

\* The index build_archive leaves for the files S, file p being the chunk
\* number chunk[p] with the bytes content[chunk[p]], and the empty
\* directories E (archiver.rs:126-142, 153-159).
MakeIndex(S, E, chunk, content) ==
    LET used == {chunk[p] : p \in S}
        at(k) == 7 + k
    IN [mapping |-> [p \in S |-> <<at(chunk[p]), 1>>],
        hashes |-> [o \in {at(k) : k \in used} |-> blake3_hash_streaming(content[o - 7])],
        sizes |-> [o \in {at(k) : k \in used} |-> Len(content[o - 7])],
        empty_dirs |-> KeySeq(E),
        magic_number |-> magic_number]

\* A command holding the index of an archive of up to three files in up to
\* two chunks and up to two empty directories.
InitQ ==
    /\ files = <<>>
    /\ dirs = {}
    /\ others = {}
    /\ Fresh
    /\ FuseIdle
    /\ RestoreIdle
    /\ q = NoQuery
    /\ \E S \in SUBSET QFiles, E \in SUBSET QEmptyDirs :
         \E chunk \in [S -> {1, 2}], content \in [{1, 2} -> Contents] :
            /\ ~({<<"e">>, <<"e", "f">>} \subseteq E)
            /\ (\E p \in S : chunk[p] = 2) => (\E p \in S : chunk[p] = 1)
            /\ content[1] # content[2]
            /\ q_index = MakeIndex(S, E, chunk, content)

queryRest == <<coreVars, openVars, q_index, fuseVars, restoreVars>>

Du(path) ==
    /\ LET r == du(q_index, path)
       IN q' = [op |-> "du", arg |-> path, ok |-> r.ok, val |-> r.val]
    /\ UNCHANGED queryRest

IsDir(path) ==
    /\ q' = [op |-> "is_dir", arg |-> path, ok |-> TRUE, val |-> is_dir(q_index, path)]
    /\ UNCHANGED queryRest

Subindex(path) ==
    /\ LET r == subindex(q_index, path)
       IN q' = [op |-> "subindex", arg |-> path, ok |-> r.ok, val |-> r.index]
    /\ UNCHANGED queryRest

Search(pattern) ==
    /\ q' = [op |-> "search", arg |-> pattern, ok |-> TRUE, val |-> search(q_index, pattern)]
    /\ UNCHANGED queryRest

NextQ ==
    \/ \E path \in QueryPaths : Du(path)
    \/ \E path \in QueryPaths : IsDir(path)
    \/ \E path \in QueryPaths : Subindex(path)
    \/ \E pattern \in Patterns : Search(pattern)

SpecQ == InitQ /\ [][NextQ]_vars

\* ------------------------------------------------------------- virtual filesystem
\* HEADBYTES (fuse.rs:20, 50000) and the number of values of a u32 (2^32),
\* both scaled down so that files longer than either can be enumerated.
HEADBYTES == 2
U32_RANGE == 4

\* `as u32` of a non-negative number
as_u32(x) == x % U32_RANGE

\* u64::saturating_sub
saturating_sub(a, b) == IF a > b THEN a - b ELSE 0

\* BiMap::insert: a pair that shares its left or its right value is replaced.
ino_insert(t, ino, path) ==
    [x \in {y \in DOMAIN t : t[y] # path} \cup {ino} |-> IF x = ino THEN path ELSE t[x]]

\* BiMap::contains_right, BiMap::get_by_right
contains_right(t, path) == \E x \in DOMAIN t : t[x] = path

get_by_right(t, path) == CHOOSE x \in DOMAIN t : t[x] = path

\* Faulty variant: an ancestor gets a new inode each time it is met.
RECURSIVE add_parents_always(_, _)
add_parents_always(st, path) ==
    IF Len(path) = 0 THEN st
    ELSE add_parents_always(<<ino_insert(st[1], st[2], Parent(path)), st[2] + 1>>, Parent(path))

\* fuse.rs:50-56 and 63-69: each ancestor that has no inode gets the next
\* one.  st is <<table, next inode>>.
RECURSIVE add_parents(_, _)
add_parents(st, path) ==
    IF Len(path) = 0 THEN st
    ELSE IF contains_right(st[1], Parent(path)) THEN add_parents(st, Parent(path))
    ELSE add_parents(<<ino_insert(st[1], st[2], Parent(path)), st[2] + 1>>, Parent(path))

\* fuse.rs:45-47 and 58-60: each path gets the next inode, then its ancestors
RECURSIVE add_paths(_, _)
add_paths(st, paths) ==
    IF paths = <<>> THEN st
    ELSE add_paths(add_parents(<<ino_insert(st[1], st[2], paths[1]), st[2] + 1>>, paths[1]),
                   Tail(paths))

\* ZipuratFS::new, for the order in which the HashMap yields the keys
new_ino_table(idx, key_order) ==
    add_paths(add_paths(<<(1 :> <<>>), 2>>, key_order), idx.empty_dirs)[1]

\* ZipuratFS::get_size_by_ino
get_size_by_ino(t, idx, ino) ==
    IF ino \notin DOMAIN t THEN [ok |-> FALSE, val |-> 0]
    ELSE IF t[ino] \notin DOMAIN idx.mapping THEN [ok |-> FALSE, val |-> 0]
    ELSE IF idx.mapping[t[ino]][1] \notin DOMAIN idx.sizes THEN [ok |-> FALSE, val |-> 0]
    ELSE [ok |-> TRUE, val |-> idx.sizes[idx.mapping[t[ino]][1]]]

\* Faulty variant: the slice starts at the beginning of the buffer.
slice_from_start(buf, from, to) ==
    IF from <= to /\ to <= Len(buf)
    THEN [ok |-> TRUE, data |-> SubSeq(buf, 1, to - from)]
    ELSE [ok |-> FALSE, data |-> <<>>]

\* &buffer[from..to]: a range that is not inside the buffer panics.
slice(buf, from, to) ==
    IF from <= to /\ to <= Len(buf)
    THEN [ok |-> TRUE, data |-> SubSeq(buf, from + 1, to)]
    ELSE [ok |-> FALSE, data |-> <<>>]

\* stream_file_head: stream_file with the decompressed output cut at
\* write_only bytes.
stream_file_head(arch, streams, from, idx, write_only) ==
    LET r == stream_file(arch, streams, from, idx)
    IN [ok |-> r.ok, data |-> SubSeq(r.data, 1, Min(write_only, Len(r.data)))]

\* FuseCache::get on the ordered map content, a sequence of <<path, data>>
cache_has(content, path) == \E k \in DOMAIN content : content[k][1] = path

cache_get(content, path) == content[CHOOSE k \in DOMAIN content : content[k][1] = path][2]

\* Faulty variant: when the cache is full the newest entries are removed.
offer_newest_out(content, path, data, size_budget, number_budget) ==
    IF Len(data) > size_budget THEN content
    ELSE IF number_budget = 0 THEN content
    ELSE LET kept == IF Len(content) >= number_budget
                     THEN SubSeq(content, 1, number_budget - 1)
                     ELSE content
         IN IF cache_has(kept, path)
            THEN [k \in DOMAIN kept |-> IF kept[k][1] = path THEN <<path, data>> ELSE kept[k]]
            ELSE Append(kept, <<path, data>>)

\* FuseCache::offer
offer(content, path, data, size_budget, number_budget) ==
    IF Len(data) > size_budget THEN content
    ELSE IF number_budget = 0 THEN content
    ELSE LET kept == IF Len(content) >= number_budget
                     THEN SubSeq(content, Len(content) - number_budget + 2, Len(content))
                     ELSE content
         IN IF cache_has(kept, path)
            THEN [k \in DOMAIN kept |-> IF kept[k][1] = path THEN <<path, data>> ELSE kept[k]]
            ELSE Append(kept, <<path, data>>)

\* What a callback replies: data, ENOENT, or nothing because it panicked.
Replied(op, ino, offset, size, kind, data) ==
    [op |-> op, ino |-> ino, offset |-> offset, size |-> size, kind |-> kind, data |-> data]

\* <ZipuratFS as Filesystem>::read: the reply and the two caches after it.
read(ino, offset, size) ==
    LET path == ino_table[ino]
        file_size == get_size_by_ino(ino_table, fs_index, ino)
        read_size == Min(size, as_u32(saturating_sub(file_size.val, offset)))
        enoent == [reply |-> Replied("read", ino, offset, size, "ENOENT", <<>>),
                   head |-> head_cache, full |-> read_cache]
        sliced(buf, head, full) ==
            LET sl == slice(buf, offset, offset + read_size)
            IN IF sl.ok
               THEN [reply |-> Replied("read", ino, offset, size, "data", sl.data),
                     head |-> head, full |-> full]
               ELSE [reply |-> Replied("read", ino, offset, size, "panic", <<>>),
                     head |-> head, full |-> full]
    IN IF ino \notin DOMAIN ino_table THEN enoent
       ELSE IF ~is_file(fs_index, path) THEN enoent
       ELSE IF ~file_size.ok
       THEN [reply |-> Replied("read", ino, offset, size, "panic", <<>>),
             head |-> head_cache, full |-> read_cache]
       ELSE IF offset = 0 /\ size < HEADBYTES
       THEN IF ino \in DOMAIN head_cache
            THEN sliced(head_cache[ino], head_cache, read_cache)
            ELSE LET r == stream_file_head(archive, plain, path, fs_index, HEADBYTES)
                 IN IF ~r.ok THEN enoent
                    ELSE sliced(r.data, Put(head_cache, ino, r.data), read_cache)
       ELSE IF cache_has(read_cache, path)
       THEN sliced(cache_get(read_cache, path), head_cache, read_cache)
       ELSE LET r == stream_file(archive, plain, path, fs_index)
            IN IF ~r.ok THEN enoent
               ELSE sliced(r.data, head_cache,
                           offer(read_cache, path, r.data, max_file_size, max_file_number))

\* A panic in a callback ends the mount.
Read(ino, offset, size) ==
    /\ reply.kind # "panic"
    /\ LET r == read(ino, offset, size)
       IN /\ reply' = r.reply
          /\ head_cache' = r.head
          /\ read_cache' = r.full
          /\ evicted' = SelectSeq([k \in DOMAIN read_cache |-> read_cache[k][1]],
                                  LAMBDA path : ~cache_has(r.full, path))
    /\ UNCHANGED <<coreVars, openVars, queryVars, restoreVars, fs_index, ino_table,
                   listing_cache, max_file_size, max_file_number, attrCaches>>

\* The bytes of chunk number k of a file n bytes long.
FileBytes(k, n) == [j \in 1..n |-> (j + k) % (MaxByte + 1)]

\* File lengths: empty, one byte, longer than the head, longer than a u32 holds.
FileLens == {0, 1, HEADBYTES + 1, U32_RANGE + 1}

\* The finished archive of the chunks in used and of the index idx
\* (archiver.rs:79, 126-142, 160-167), each stream one byte long, and what
\* its streams decrypt to.
MakeArchive(used) ==
    u64_write_bin(magic_le)
        \o (IF 1 \in used THEN compress_and_encrypt(1, 1) ELSE <<>>)
        \o (IF 2 \in used THEN compress_and_encrypt(2, 1) ELSE <<>>)
        \o compress_and_encrypt(3, 1)
        \o u64_write_bin(to_le_bytes(1, 8))
        \o u64_write_bin(magic_le)

MakePlain(content, idx) ==
    <<[kind |-> "file", body |-> content[1]], [kind |-> "file", body |-> content[2]],
      [kind |-> "index", body |-> write_bin(idx)]>>

\* The archive is finished and no build or reader is running.
Finished ==
    /\ pc = "done"
    /\ target_exists = TRUE
    /\ variant = "Local"
    /\ run = 1
    /\ Idle
    /\ QueryIdle

FuseFiles == {<<"a">>, <<"d", "b">>}

\* The budgets of the full-body cache, <<max_file_size, max_file_number>>:
\* nothing but one-byte files, no file at all, one file, every file.
Budgets ==
    {<<1, 1>>} \cup {<<U32_RANGE + 1, n>> : n \in 0..Cardinality(FuseFiles)}

\* A mount (ZipuratFS::new) of the archive of one file of any length, or of
\* two files, the second one a chunk of its own or a reference to the first
\* one's, with every cache empty and some cache budgets.
InitF ==
    /\ dirs = {}
    /\ others = {}
    /\ Finished
    /\ RestoreIdle
    /\ \E S \in {{<<"a">>}, FuseFiles}, lens \in [{1, 2} -> FileLens] :
         \E chunk \in [S -> {1, 2}] :
            LET content == [k \in {1, 2} |-> FileBytes(k, lens[k])]
                used == {chunk[p] : p \in S}
            IN /\ chunk[<<"a">>] = 1
               /\ 2 \notin used => lens[2] = 1
               /\ 2 \in used => lens[1] = 1 /\ lens[2] = HEADBYTES + 1
               /\ (S = FuseFiles /\ 2 \notin used) => lens[1] = U32_RANGE + 1
               /\ content[1] # content[2]
               /\ files = [p \in S |-> content[chunk[p]]]
               /\ fs_index = MakeIndex(S, {}, chunk, content)
               /\ archive = MakeArchive(used)
               /\ plain = MakePlain(content, fs_index)
               /\ ino_table = new_ino_table(fs_index, KeySeq(S))
    /\ read_cache = <<>>
    /\ head_cache = <<>>
    /\ listing_cache = <<>>
    /\ \E b \in Budgets : max_file_size = b[1] /\ max_file_number = b[2]
    /\ reply = NoReply
    /\ evicted = <<>>
    /\ lookup_cache = <<>>
    /\ attribute_cache = <<>>

\* The inodes, offsets and sizes of the callbacks: every inode of the table
\* and one that is not in it, offsets up to beyond the longest file, every
\* u32 size.  A read of an inode that is no file is tried with one offset and
\* size only: its reply depends on neither.
Inodes == 1..(2 * Cardinality(QFiles \cup QEmptyDirs) + 2)
Offsets == 0..(U32_RANGE + 2)
Sizes == 0..(U32_RANGE - 1)

NextF ==
    \E ino \in Inodes, offset \in Offsets, size \in Sizes :
        /\ ino <= Cardinality(DOMAIN ino_table) + 1
        /\ (ino \in DOMAIN ino_table /\ is_file(fs_index, ino_table[ino])) \/ (offset = 0 /\ size = 0)
        /\ Read(ino, offset, size)

SpecF == InitF /\ [][NextF]_vars

\* ------------------------------------------------------------- directory listing
\* Ord for str: byte strings compared lexicographically
RECURSIVE str_less(_, _)
str_less(a, b) ==
    IF b = <<>> THEN FALSE
    ELSE IF a = <<>> THEN TRUE
    ELSE IF a[1] # b[1] THEN a[1] < b[1]
    ELSE str_less(Tail(a), Tail(b))

\* Ord for Path: the components compared one by one
RECURSIVE path_less(_, _)
path_less(p, r) ==
    IF r = <<>> THEN FALSE
    ELSE IF p = <<>> THEN TRUE
    ELSE IF p[1] # r[1] THEN str_less(to_str(p[1]), to_str(r[1]))
    ELSE path_less(Tail(p), Tail(r))

\* fuse.rs:302-303: the children collected into a Vec and sorted
RECURSIVE sorted(_)
sorted(S) ==
    IF S = {} THEN <<>>
    ELSE LET least == CHOOSE x \in S : \A y \in S \ {x} : path_less(x, y)
         IN <<least>> \o sorted(S \ {least})

\* ZipuratFS::get_parent_inode
get_parent_inode(t, path) ==
    IF path = <<>> THEN [some |-> TRUE, val |-> 1]
    ELSE IF contains_right(t, Parent(path))
    THEN [some |-> TRUE, val |-> get_by_right(t, Parent(path))]
    ELSE [some |-> FALSE, val |-> 0]

\* fuse.rs:304-318: an entry <<inode, type, name>> for each child that has an
\* inode.
RECURSIVE push_children(_, _, _, _)
push_children(entries, cs, t, path) ==
    IF cs = <<>> THEN entries
    ELSE LET c == cs[1]
             ft == IF is_file(fs_index, c) THEN "RegularFile" ELSE "Directory"
             name == StripPrefix(c, path)[1]
         IN push_children(IF contains_right(t, c)
                          THEN Append(entries, <<get_by_right(t, c), ft, name>>)
                          ELSE entries,
                          Tail(cs), t, path)

\* fuse.rs:273-277, 321-325: the entries after the first offset ones are added
\* to the reply, each with its position as the cookie, until the reply buffer,
\* which has room for cap entries, is full.
add_entries(entries, offset, cap) ==
    [j \in 1..Min(cap, saturating_sub(Len(entries), offset)) |->
        <<entries[offset + j][1], offset + j, entries[offset + j][2], entries[offset + j][3]>>]

\* <ZipuratFS as Filesystem>::readdir: the reply and the listing cache after it.
readdir(ino, offset, cap) ==
    LET path == ino_table[ino]
        enoent == [reply |-> Replied("readdir", ino, offset, cap, "ENOENT", <<>>),
                   listing |-> listing_cache]
        listed(entries, cache) ==
            [reply |-> Replied("readdir", ino, offset, cap, "data",
                               add_entries(entries, offset, cap)),
             listing |-> cache]
    IN IF ino \in DOMAIN listing_cache THEN listed(listing_cache[ino], listing_cache)
       ELSE IF ino \notin DOMAIN ino_table THEN enoent
       ELSE IF ~is_dir(fs_index, path) THEN enoent
       ELSE LET parent == get_parent_inode(ino_table, path)
                parent_ino == IF parent.some THEN parent.val ELSE ino
                children == get_direct_children(fs_index, path)
                entries == push_children(<<<<ino, "Directory", ".">>,
                                           <<parent_ino, "Directory", "..">>>>,
                                         sorted(children.children), ino_table, path)
            IN IF ~children.ok THEN enoent
               ELSE listed(entries, Put(listing_cache, ino, entries))

Readdir(ino, offset, cap) ==
    /\ LET r == readdir(ino, offset, cap)
       IN /\ reply' = r.reply
          /\ listing_cache' = r.listing
    /\ UNCHANGED <<coreVars, openVars, queryVars, restoreVars, fs_index, ino_table,
                   read_cache, head_cache, max_file_size, max_file_number, evicted,
                   attrCaches>>

\* The longest listing: ".", ".." and the children of the root.
MaxEntries == 5

\* A mount of the archive of some of the files and empty directories of the
\* queried indexes, every file the same chunk, with every cache empty.
InitD ==
    /\ dirs = {}
    /\ others = {}
    /\ Finished
    /\ RestoreIdle
    /\ \E S \in SUBSET QFiles, E \in SUBSET QEmptyDirs :
         LET chunk == [p \in S |-> 1]
             content == [k \in {1, 2} |-> FileBytes(k, 1)]
         IN /\ ~({<<"e">>, <<"e", "f">>} \subseteq E)
            /\ files = [p \in S |-> content[1]]
            /\ fs_index = MakeIndex(S, E, chunk, content)
            /\ archive = MakeArchive({chunk[p] : p \in S})
            /\ plain = MakePlain(content, fs_index)
            /\ ino_table = new_ino_table(fs_index, KeySeq(S))
    /\ read_cache = <<>>
    /\ head_cache = <<>>
    /\ listing_cache = <<>>
    /\ max_file_size = 1
    /\ max_file_number = 1
    /\ reply = NoReply
    /\ evicted = <<>>
    /\ lookup_cache = <<>>
    /\ attribute_cache = <<>>

\* A listing is asked for from every position, with a reply buffer that has
\* room for one entry, for two, or for all of them.
NextD ==
    \E ino \in Inodes, offset \in 0..(MaxEntries + 1), cap \in {1, 2, MaxEntries} :
        /\ ino <= Cardinality(DOMAIN ino_table) + 1
        /\ (ino \in DOMAIN ino_table /\ ~is_file(fs_index, ino_table[ino])) \/ (offset = 0 /\ cap = 1)
        /\ Readdir(ino, offset, cap)

SpecD == InitD /\ [][NextD]_vars

\* ------------------------------------------------------------- restore
\* Index::index_length_and_hash
index_length_and_hash(idx, path) ==
    IF path \notin DOMAIN idx.mapping THEN [ok |-> FALSE, hash |-> 0]
    ELSE IF idx.mapping[path][1] \notin DOMAIN idx.hashes THEN [ok |-> FALSE, hash |-> 0]
    ELSE [ok |-> TRUE, hash |-> idx.hashes[idx.mapping[path][1]]]

\* Path::exists, for a path below the destination `to`
exists(p) == p \in DOMAIN dest \/ p \in dest_dirs

\* fs::create_dir_all: the directory and every ancestor it lacks
create_dir_all(ds, p) == ds \cup {SubSeq(p, 1, n) : n \in 0..Len(p)}

\* Faulty variant: whatever exists at the destination is trusted.
skips_any_existing(tr, to_path, hash_ref) == tr /\ exists(to_path)

\* restore.rs:78-83: the file is skipped when its digest on disk is the
\* stored one.
skips(tr, to_path, hash_ref) ==
    tr /\ exists(to_path) /\ blake3_hash_streaming(dest[to_path]) = hash_ref

\* The orders in which subindex.mapping.keys() may yield the children.
Reverse(sq) == [k \in DOMAIN sq |-> sq[Len(sq) + 1 - k]]

KeyOrders(S) == {KeySeq(S), Reverse(KeySeq(S))}

\* restore_command up to the loop of copy_directory.  A file is copied by
\* copy_file at once; a path that is neither file nor directory is an error.
RestoreStart(tr) ==
    /\ r_pc \in {"idle", "done"}
    /\ r_run < MaxRuns
    /\ r_run' = r_run + 1
    /\ trust' = tr
    /\ IF is_file(r_index, r_from)
       THEN LET r == stream_file(archive, plain, r_from, r_index)
            IN IF <<>> \in dest_dirs
               THEN /\ r_pc' = "failed"
                    /\ r_log' = <<>>
                    /\ UNCHANGED <<dest, r_children, r_i>>
               ELSE /\ dest' = Put(dest, <<>>, r.data)
                    /\ r_log' = <<r_from>>
                    /\ r_pc' = IF r.ok THEN "done" ELSE "failed"
                    /\ UNCHANGED <<r_children, r_i>>
       ELSE IF is_dir(r_index, r_from)
       THEN LET si == subindex(r_index, r_from)
            IN IF ~si.ok
               THEN /\ r_pc' = "failed"
                    /\ r_log' = <<>>
                    /\ UNCHANGED <<dest, r_children, r_i>>
               ELSE /\ r_children' \in KeyOrders(DOMAIN si.index.mapping)
                    /\ r_i' = 1
                    /\ r_log' = <<>>
                    /\ r_pc' = "loop"
                    /\ UNCHANGED dest
       ELSE /\ r_pc' = "failed"
            /\ r_log' = <<>>
            /\ UNCHANGED <<dest, r_children, r_i>>
    /\ UNCHANGED <<coreVars, openVars, queryVars, fuseVars, r_index, r_from, dest_dirs>>

\* restore.rs:67-88: one turn of the loop over the children.  r_log lists
\* the paths stream_file was called for.
RestoreChild ==
    /\ r_pc = "loop"
    /\ r_i <= Len(r_children)
    /\ LET c == r_children[r_i]
           from_path == r_from \o c
           h == index_length_and_hash(r_index, from_path)
           r == stream_file(archive, plain, from_path, r_index)
       IN IF ~h.ok
          THEN /\ r_pc' = "failed"
               /\ UNCHANGED <<dest, dest_dirs, r_i, r_log>>
          ELSE IF trust /\ c \in dest_dirs
          THEN /\ r_pc' = "failed"
               /\ UNCHANGED <<dest, dest_dirs, r_i, r_log>>
          ELSE IF skips(trust, c, h.hash)
          THEN /\ r_i' = r_i + 1
               /\ UNCHANGED <<dest, dest_dirs, r_pc, r_log>>
          ELSE IF c \in dest_dirs
          THEN /\ r_pc' = "failed"
               /\ dest_dirs' = create_dir_all(dest_dirs, Parent(c))
               /\ UNCHANGED <<dest, r_i, r_log>>
          ELSE /\ dest_dirs' = create_dir_all(dest_dirs, Parent(c))
               /\ dest' = Put(dest, c, r.data)
               /\ r_log' = Append(r_log, from_path)
               /\ r_pc' = IF r.ok THEN "loop" ELSE "failed"
               /\ r_i' = IF r.ok THEN r_i + 1 ELSE r_i
    /\ UNCHANGED <<coreVars, openVars, queryVars, fuseVars, r_index, r_from, trust,
                   r_children, r_run>>

\* restore.rs:89-101: the empty directories below from are created.
RestoreEmpties ==
    /\ r_pc = "loop"
    /\ r_i > Len(r_children)
    /\ LET empties == {StripPrefix(e, r_from) :
                          e \in {x \in Range(r_index.empty_dirs) : StartsWith(x, r_from)}}
       IN dest_dirs' = dest_dirs \cup UNION {create_dir_all({}, e) : e \in empties}
    /\ r_pc' = "done"
    /\ UNCHANGED <<coreVars, openVars, queryVars, fuseVars, r_index, r_from, trust, dest,
                   r_children, r_i, r_log, r_run>>

\* What the destination may hold of a file before the first restore: bytes
\* with the digest of no archived file's, of one's, and one archived file's
\* own.
DestContents == {<<0>>, <<1>>, <<2>>}

\* A restore command on the archive of the three files, the third one a
\* reference to the first one's chunk or a chunk of its own, from the root,
\* from the directory d, from a file and from a path the archive has not, to
\* a destination that holds some of the files restored, with some content.
InitR ==
    /\ dirs = {}
    /\ others = {}
    /\ Finished
    /\ FuseIdle
    /\ \E chunk \in [QFiles -> {1, 2}], E \in {{}, {<<"d", "g">>, <<"e">>}} :
         LET content == [k \in {1, 2} |-> <<k>>]
         IN /\ chunk[<<"Ab">>] = 1
            /\ chunk[<<"d", "b">>] = 1
            /\ files = [p \in QFiles |-> content[chunk[p]]]
            /\ r_index = MakeIndex(QFiles, E, chunk, content)
            /\ archive = MakeArchive({chunk[p] : p \in QFiles})
            /\ plain = MakePlain(content, r_index)
    /\ r_from \in {<<>>, <<"d">>, <<"Ab">>, <<"x">>}
    /\ LET targets == {StripPrefix(p, r_from) : p \in {x \in QFiles : StartsWith(x, r_from)}}
       IN dest \in UNION {[T -> DestContents] : T \in SUBSET targets}
    /\ dest_dirs = UNION {create_dir_all({}, Parent(p)) : p \in {x \in DOMAIN dest : Len(x) > 0}}
    /\ trust = FALSE
    /\ r_pc = "idle"
    /\ r_children = <<>>
    /\ r_i = 0
    /\ r_log = <<>>
    /\ r_run = 0

NextR ==
    \/ \E tr \in BOOLEAN : RestoreStart(tr)
    \/ RestoreChild
    \/ RestoreEmpties

SpecR == InitR /\ [][NextR]_vars

\* ------------------------------------------------------------- codec round trip
\* The five sequences of a serialised index, in the order they are written.
SerFields == <<"hash_indices", "hashes", "sizes", "map_indices", "maps">>

\* index.write_bin(&mut content) on the index held
WriteBin ==
    /\ q.op = "none"
    /\ LET ser == write_bin(q_index)
       IN q' = [op |-> "write_bin", arg |-> <<>>, ok |-> ser.ok, val |-> ser]
    /\ UNCHANGED queryRest

\* The serialised index reaches the reader with one of its five sequences one
\* element shorter.
CutSequence(f) ==
    /\ q.op = "write_bin"
    /\ q.ok
    /\ Len(q.val[f]) > 0
    /\ q' = [op |-> "cut", arg |-> f, ok |-> TRUE,
             val |-> [q.val EXCEPT ![f] = SubSeq(q.val[f], 1, Len(q.val[f]) - 1)]]
    /\ UNCHANGED queryRest

\* Index::read_bin of what was written, or of what was cut
ReadBin ==
    /\ q.op \in {"write_bin", "cut"}
    /\ q.ok
    /\ LET r == read_bin(q.val)
       IN q' = [op |-> "read_bin", arg |-> q.val, ok |-> r.ok, val |-> r.index]
    /\ UNCHANGED queryRest

NextC ==
    \/ WriteBin
    \/ \E f \in Range(SerFields) : CutSequence(f)
    \/ ReadBin

SpecC == InitQ /\ [][NextC]_vars

\* ------------------------------------------------------------- mount
\* The files of the archives mounted: those of the queried indexes and one
\* two directories deep.
MountFiles == QFiles \cup {<<"e", "f", "a">>}

\* No empty directory of E holds a file of S or a directory of E
\* (archiver.rs:58-61).
EmptyDirsAreLeaves(S, E) ==
    \A e \in E : \A p \in S \cup E : p # e => ~StartsWith(p, e)

\* A finished archive about to be mounted: its index holds the empty
\* directories in the order the builder shuffled them into.
InitM ==
    /\ dirs = {}
    /\ others = {}
    /\ Finished
    /\ RestoreIdle
    /\ \E S \in SUBSET MountFiles, E \in SUBSET QEmptyDirs :
         LET chunk == [p \in S |-> 1]
             content == [k \in {1, 2} |-> FileBytes(k, 1)]
         IN /\ EmptyDirsAreLeaves(S, E)
            /\ files = [p \in S |-> content[1]]
            /\ \E eo \in Perms(E) :
                  fs_index = [MakeIndex(S, E, chunk, content) EXCEPT !.empty_dirs = eo]
            /\ archive = MakeArchive({chunk[p] : p \in S})
            /\ plain = MakePlain(content, fs_index)
    /\ ino_table = <<>>
    /\ read_cache = <<>>
    /\ head_cache = <<>>
    /\ listing_cache = <<>>
    /\ max_file_size = 1
    /\ max_file_number = 1
    /\ reply = NoReply
    /\ evicted = <<>>
    /\ lookup_cache = <<>>
    /\ attribute_cache = <<>>

\* ZipuratFS::new, index.mapping.keys() yielding the keys in key_order
New(key_order) ==
    /\ reply.op = "none"
    /\ ino_table' = new_ino_table(fs_index, key_order)
    /\ reply' = Replied("new", 0, 0, 0, "ok", <<>>)
    /\ UNCHANGED <<coreVars, openVars, queryVars, restoreVars, fs_index, read_cache,
                   head_cache, listing_cache, max_file_size, max_file_number, evicted,
                   attrCaches>>

NextM == \E key_order \in Perms(DOMAIN fs_index.mapping) : New(key_order)

SpecM == InitM /\ [][NextM]_vars

\* ------------------------------------------------------------- full-body cache
\* The largest max_file_number mounted with.
MaxFiles == 2

\* A mount of the archive of three files in two chunks, one chunk empty or one
\* byte long and one longer than the head, with a full-body cache that admits
\* empty files only, short files only, or every file, and holds up to
\* MaxFiles of them.
InitK ==
    /\ dirs = {}
    /\ others = {}
    /\ Finished
    /\ RestoreIdle
    /\ \E chunk \in [QFiles -> {1, 2}], short \in {0, 1} :
         LET content == [k \in {1, 2} |-> FileBytes(k, IF k = 1 THEN short ELSE HEADBYTES + 1)]
         IN /\ chunk[<<"Ab">>] = 1
            /\ files = [p \in QFiles |-> content[chunk[p]]]
            /\ fs_index = MakeIndex(QFiles, {}, chunk, content)
            /\ archive = MakeArchive({chunk[p] : p \in QFiles})
            /\ plain = MakePlain(content, fs_index)
            /\ ino_table = new_ino_table(fs_index, KeySeq(QFiles))
    /\ read_cache = <<>>
    /\ head_cache = <<>>
    /\ listing_cache = <<>>
    /\ max_file_size \in {0, 1, HEADBYTES + 1}
    /\ max_file_number \in 0..MaxFiles
    /\ reply = NoReply
    /\ evicted = <<>>
    /\ lookup_cache = <<>>
    /\ attribute_cache = <<>>

\* Whole files are read, which takes the path through the full-body cache.
NextK ==
    \E ino \in Inodes :
        /\ ino \in DOMAIN ino_table
        /\ is_file(fs_index, ino_table[ino])
        /\ Read(ino, 0, HEADBYTES + 1)

SpecK == InitK /\ [][NextK]_vars

\* ------------------------------------------------------------- attributes
\* A FileAttr, by the fields that differ between entries.
NoAttr == [ino |-> 0, size |-> 0, kind |-> "none", nlink |-> 0, perm |-> 0]

AttrErr == [ok |-> FALSE, attr |-> NoAttr]

\* ZipuratFS::get_file_attr; perm 0o644
get_file_attr(path) ==
    IF path \notin DOMAIN fs_index.mapping THEN AttrErr
    ELSE IF ~contains_right(ino_table, path) THEN AttrErr
    ELSE IF fs_index.mapping[path][1] \notin DOMAIN fs_index.sizes THEN AttrErr
    ELSE [ok |-> TRUE,
          attr |-> [ino |-> get_by_right(ino_table, path),
                    size |-> fs_index.sizes[fs_index.mapping[path][1]],
                    kind |-> "RegularFile", nlink |-> 1, perm |-> 420]]

\* ZipuratFS::get_dir_attr; perm 0o755
get_dir_attr(path) ==
    LET direct_children == get_direct_children(fs_index, path)
        num_links == IF Len(path) > 0
                     THEN Cardinality(direct_children.children) + 2
                     ELSE Cardinality(direct_children.children) + 1
    IN IF ~direct_children.ok THEN AttrErr
       ELSE IF ~contains_right(ino_table, path) THEN AttrErr
       ELSE [ok |-> TRUE,
             attr |-> [ino |-> get_by_right(ino_table, path), size |-> 0,
                       kind |-> "Directory", nlink |-> num_links, perm |-> 493]]

\* ZipuratFS::get_general_attr
get_general_attr(path) ==
    IF is_file(fs_index, path) THEN get_file_attr(path) ELSE get_dir_attr(path)

\* What lookup replies: the entry asked for, by parent and name.
RepliedEntry(parent, name, kind, attr) ==
    [op |-> "lookup", ino |-> parent, name |-> name, offset |-> 0, size |-> 0,
     kind |-> kind, data |-> attr]

\* <ZipuratFS as Filesystem>::lookup
Lookup(parent, name) ==
    /\ IF <<parent, name>> \in DOMAIN lookup_cache
       THEN /\ reply' = RepliedEntry(parent, name, "data", lookup_cache[<<parent, name>>])
            /\ UNCHANGED lookup_cache
       ELSE IF parent \notin DOMAIN ino_table
       THEN /\ reply' = RepliedEntry(parent, name, "ENOENT", NoAttr)
            /\ UNCHANGED lookup_cache
       ELSE LET a == get_general_attr(ino_table[parent] \o <<name>>)
            IN IF ~a.ok
               THEN /\ reply' = RepliedEntry(parent, name, "ENOENT", NoAttr)
                    /\ UNCHANGED lookup_cache
               ELSE /\ lookup_cache' = Put(lookup_cache, <<parent, name>>, a.attr)
                    /\ reply' = RepliedEntry(parent, name, "data", a.attr)
    /\ UNCHANGED <<coreVars, openVars, queryVars, restoreVars, fs_index, ino_table,
                   read_cache, head_cache, listing_cache, max_file_size, max_file_number,
                   evicted, attribute_cache>>

\* <ZipuratFS as Filesystem>::getattr
Getattr(ino) ==
    /\ IF ino \in DOMAIN attribute_cache
       THEN /\ reply' = Replied("getattr", ino, 0, 0, "data", attribute_cache[ino])
            /\ UNCHANGED attribute_cache
       ELSE IF ino \notin DOMAIN ino_table
       THEN /\ reply' = Replied("getattr", ino, 0, 0, "ENOENT", NoAttr)
            /\ UNCHANGED attribute_cache
       ELSE LET a == get_general_attr(ino_table[ino])
            IN IF ~a.ok
               THEN /\ reply' = Replied("getattr", ino, 0, 0, "ENOENT", NoAttr)
                    /\ UNCHANGED attribute_cache
               ELSE /\ attribute_cache' = Put(attribute_cache, ino, a.attr)
                    /\ reply' = Replied("getattr", ino, 0, 0, "data", a.attr)
    /\ UNCHANGED <<coreVars, openVars, queryVars, restoreVars, fs_index, ino_table,
                   read_cache, head_cache, listing_cache, max_file_size, max_file_number,
                   evicted, lookup_cache>>

\* The names looked up: those of the archive and one it has not.
Names == {"a", "e", "f", "x"}

\* A mount of the archive of one file of one byte and of no empty directory,
\* of the empty directory e, or of the empty directory e/f.
InitA ==
    /\ dirs = {}
    /\ others = {}
    /\ Finished
    /\ RestoreIdle
    /\ \E E \in {{}, {<<"e">>}, {<<"e", "f">>}} :
         LET S == {<<"a">>}
             chunk == [p \in S |-> 1]
             content == [k \in {1, 2} |-> FileBytes(k, 1)]
         IN /\ files = [p \in S |-> content[1]]
            /\ fs_index = MakeIndex(S, E, chunk, content)
            /\ archive = MakeArchive({chunk[p] : p \in S})
            /\ plain = MakePlain(content, fs_index)
            /\ ino_table = new_ino_table(fs_index, KeySeq(S))
    /\ read_cache = <<>>
    /\ head_cache = <<>>
    /\ listing_cache = <<>>
    /\ max_file_size = 1
    /\ max_file_number = 1
    /\ reply = NoReply
    /\ evicted = <<>>
    /\ lookup_cache = <<>>
    /\ attribute_cache = <<>>

\* The four callbacks, until one panics: for every inode of the table and one
\* that is not in it; reads inside the file, at its end and past it, through
\* the head and through the full-body cache; listings from the start and from
\* past the end.
NextA ==
    /\ reply.kind # "panic"
    /\ \E ino \in Inodes :
          /\ ino <= Cardinality(DOMAIN ino_table) + 1
          /\ \/ \E name \in Names : Lookup(ino, name)
             \/ Getattr(ino)
             \/ \E offset \in {0, MaxEntries} : Readdir(ino, offset, MaxEntries)
             \/ \E offset \in 0..HEADBYTES, size \in {1, HEADBYTES} : Read(ino, offset, size)

SpecA == InitA /\ [][NextA]_vars

\* ============================================================= claims
\* The listing of an index: its mapping keys plus its empty directories.
Listing(idx) ==
    (DOMAIN idx.mapping)
        \cup (IF "empty_dirs" \in DOMAIN idx THEN Range(idx.empty_dirs) ELSE {})

\* The directories of the source tree that hold nothing at all.
EmptyLeafDirs == {d \in dirs : \A p \in (DOMAIN files) \cup dirs \cup others : Parent(p) # d \/ p = <<>>}

\* The paths the builder wrote as a chunk of their own, in the order written.
Materialized == [k \in DOMAIN dedup_hashes |-> dedup_hashes[k][1]]

\* C1: once the archive is built and its index parsed back, the listing of the
\* parsed index is exactly the files of the source tree plus its empty leaf
\* directories.
C1_RoundTripListing ==
    rd_pc # "closed" =>
        /\ rd_pc = "open"
        /\ Listing(rd_index) = (DOMAIN files) \cup EmptyLeafDirs

\* C2: streaming a file of the source tree from the built archive delivers
\* the file's source bytes, for chunks of their own and for dedup references.
C2_Fidelity ==
    out.path \in DOMAIN files => out.ok /\ out.data = files[out.path]

C2_Witness ==
    /\ out.ok
    /\ out.path \in DOMAIN files
    /\ out.path \notin Range(Materialized)
    /\ out.data = files[out.path]
    /\ Len(out.data) > 0

\* C3: two input files with identical bytes are mapped to the same offset and
\* the same length.
C3_Dedup ==
    \A p1, p2 \in DOMAIN mapping : files[p1] = files[p2] => mapping[p1] = mapping[p2]

C3_Witness ==
    /\ pc = "done"
    /\ Cardinality(DOMAIN index.mapping) = 3
    /\ \A p1, p2 \in DOMAIN index.mapping :
         files[p1] = files[p2] /\ index.mapping[p1] = index.mapping[p2]
    /\ DOMAIN index.mapping = DOMAIN files

\* C4: two files with equal digests and different bytes never share a chunk.
C4_NoFalseDedup ==
    \A p1, p2 \in DOMAIN mapping :
        (/\ blake3_hash_streaming(files[p1]) = blake3_hash_streaming(files[p2])
         /\ files[p1] # files[p2])
        => mapping[p1][1] # mapping[p2][1]

C4_Witness ==
    \E p1, p2 \in DOMAIN mapping :
        /\ blake3_hash_streaming(files[p1]) = blake3_hash_streaming(files[p2])
        /\ files[p1] # files[p2]
        /\ Len(files[p1]) = Len(files[p2])
        /\ mapping[p1][1] # mapping[p2][1]
        /\ p2 \in Range(Materialized)
        /\ \E k \in DOMAIN Materialized : Materialized[k] = p1 /\ Materialized[1] = p2 /\ k > 1

\* C5: the offsets the mapping uses, the keys of hashes and the keys of sizes
\* are one and the same set, during the build and in the index it produces.
C5_ReferentialIntegrity ==
    /\ {mapping[p][1] : p \in DOMAIN mapping} = DOMAIN hashes
    /\ DOMAIN hashes = DOMAIN sizes
    /\ pc \in {"trailer", "done"} =>
         /\ {index.mapping[p][1] : p \in DOMAIN index.mapping} = DOMAIN index.hashes
         /\ DOMAIN index.hashes = DOMAIN index.sizes

C5_Witness ==
    /\ pc = "done"
    /\ Cardinality(DOMAIN index.mapping) = 3
    /\ Cardinality(DOMAIN index.hashes) = 2
    /\ \E p \in DOMAIN index.mapping : index.sizes[index.mapping[p][1]] = 0

\* C6: the chunks recorded so far lie one after the other from offset 8 on,
\* in the order they were written, without overlap, and each recorded offset
\* is the archive position at which the bytes of that chunk begin.
C6_ChunkLayout ==
    LET at(k) == mapping[Materialized[k]]
    IN /\ \A p \in DOMAIN mapping : \E k \in DOMAIN Materialized : mapping[p] = at(k)
       /\ \A k \in DOMAIN Materialized :
            /\ k = 1 => at(k)[1] = 8
            /\ k > 1 => at(k - 1)[1] < at(k)[1] /\ at(k - 1)[1] + at(k - 1)[2] <= at(k)[1]
            /\ at(k)[2] > 0
            /\ at(k)[1] + at(k)[2] <= Len(archive)
            /\ \A j \in 1..at(k)[2] :
                 /\ archive[at(k)[1] + j][2] = j
                 /\ archive[at(k)[1] + j][3] = at(k)[2]
                 /\ archive[at(k)[1] + j][1] = archive[at(k)[1] + 1][1]
                 /\ archive[at(k)[1] + j][1] # 0
                 /\ plain[archive[at(k)[1] + j][1]].kind = "file"
                 /\ plain[archive[at(k)[1] + j][1]].body = files[Materialized[k]]
       /\ pc = "loop" => current_index = stream_position

C6_Witness ==
    /\ pc = "done"
    /\ Len(Materialized) = 3
    /\ mapping[Materialized[1]] = <<8, 2>>
    /\ mapping[Materialized[2]] = <<10, 1>>
    /\ mapping[Materialized[3]] = <<11, 2>>

\* The magic as the specification writes it, 0xA9A98D26AA1F3FDD, and the
\* hexadecimal form of the number the builder writes, 0xA99504867C819B1D.
SpecMagicHex == <<10,9,10,9,8,13,2,6,10,10,1,15,3,15,13,13>>
CodeMagicHex == <<10,9,9,5,0,4,8,6,7,12,8,1,9,11,1,13>>
SpecMagicLe == DigitsToLe(SpecMagicHex, 16, 8)
CodeMagicLe == DigitsToLe(CodeMagicHex, 16, 8)

First8 == [k \in 1..8 |-> archive[k][2]]
Last8 == [k \in 1..8 |-> archive[Len(archive) - 8 + k][2]]
AllRaw(from, to) == \A k \in from..to : IsRaw(archive[k])

IndexCells == {k \in DOMAIN archive : ~IsRaw(archive[k]) /\ plain[archive[k][1]].kind = "index"}

\* C8: the u64 sixteen bytes before the end is the byte length of the
\* encrypted index, and the open seeks to end - 16 - INDEX_LEN and reads
\* exactly INDEX_LEN bytes: the bytes of the index segment, all of them and
\* no other.
C8_TrailerDiscoverable ==
    /\ pc = "done" =>
         /\ AllRaw(Len(archive) - 15, Len(archive) - 8)
         /\ from_le_bytes([k \in 1..8 |-> archive[Len(archive) - 16 + k][2]])
              = Cardinality(IndexCells)
         /\ \A k \in 4..8 : archive[Len(archive) - 16 + k][2] = 0
         /\ IndexCells = (Len(archive) - 16 - Cardinality(IndexCells) + 1)..(Len(archive) - 16)
    /\ rd_pc # "closed" =>
         /\ rd_pc = "open"
         /\ rd_seek[1] = Len(archive) - 16 - Cardinality(IndexCells)
         /\ rd_seek[2] = Cardinality(IndexCells)
         /\ IndexCells = (rd_seek[1] + 1)..(rd_seek[1] + rd_seek[2])

C8_Witness ==
    /\ rd_pc = "open"
    /\ rd_seek[2] = 2
    /\ rd_seek[1] > 8
    /\ Cardinality(IndexCells) = 2

\* C9: an archive whose trailing 8 bytes are not the magic is refused on open.
C9_MagicCheckedOnOpen ==
    rd_pc = "open" =>
        /\ AllRaw(Len(archive) - 7, Len(archive))
        /\ Last8 = magic_le

\* C10: a file streamed successfully digests to the hash the index stores for
\* its chunk.
C10_VerifiedRead ==
    (out.ok /\ out.path \in DOMAIN rd_index.mapping) =>
        blake3_hash_streaming(out.data) = rd_index.hashes[rd_index.mapping[out.path][1]]

\* C11: opening a location for writing when something is already there fails
\* and leaves what is there unchanged, for the local and the remote variant.
C11_NoOverwrite ==
    [][(pc = "unopened" /\ target_exists) => (pc' = "failed" /\ archive' = archive)]_vars

\* The local half of C11: File::create_new never touches an existing target.
C11_LocalNoOverwrite ==
    [][(pc = "unopened" /\ target_exists /\ variant = "Local")
        => (pc' = "failed" /\ archive' = archive)]_vars

\* The keys of an index that lie strictly below the path d, the empty
\* directories of an index, and a path with its first n components removed.
FilesUnder(idx, d) ==
    {k \in DOMAIN idx.mapping : Len(k) > Len(d) /\ [j \in 1..Len(d) |-> k[j]] = d}

EmptiesUnder(idx, d) ==
    {e \in Range(idx.empty_dirs) : Len(e) > Len(d) /\ [j \in 1..Len(d) |-> e[j]] = d}

Below(p, n) == [j \in 1..(Len(p) - n) |-> p[j + n]]

\* C12: du of a file path is the size recorded for its chunk; du of a
\* directory is the sum, over the file paths below it, of the size of each
\* path's chunk, a chunk shared by n paths counting n times.
C12_DuConsistency ==
    q.op = "du" =>
        /\ q.arg \in DOMAIN q_index.mapping =>
              q.ok /\ q.val = q_index.sizes[q_index.mapping[q.arg][1]]
        /\ FilesUnder(q_index, q.arg) # {} =>
              /\ q.ok
              /\ q.val = SumOver([o \in DOMAIN q_index.sizes |->
                                    q_index.sizes[o] * Cardinality({k \in FilesUnder(q_index, q.arg) :
                                                                       q_index.mapping[k][1] = o})],
                                 DOMAIN q_index.sizes)

C12_Witness ==
    /\ q.op = "du"
    /\ q.arg = <<"d">>
    /\ DOMAIN q_index.mapping = QFiles
    /\ q_index.mapping[<<"d", "b">>] = q_index.mapping[<<"d", "c">>]
    /\ q_index.mapping[<<"Ab">>] # q_index.mapping[<<"d", "b">>]
    /\ q_index.sizes[q_index.mapping[<<"Ab">>][1]] = 1
    /\ q.ok
    /\ q.val = 2

\* C13: du of a path that is no file of the index, has no file and no empty
\* directory at or below it and is not the root, is an error.
C13_DuUnknownPath ==
    (/\ q.op = "du"
     /\ q.arg # <<>>
     /\ q.arg \notin DOMAIN q_index.mapping
     /\ FilesUnder(q_index, q.arg) = {}
     /\ q.arg \notin Range(q_index.empty_dirs)
     /\ EmptiesUnder(q_index, q.arg) = {})
    => ~q.ok

\* C14: is_dir(p) is true exactly when p is the root, or p is not a file and
\* some key of mapping or entry of empty_dirs lies strictly below p.
C14_IsDirSemantics ==
    q.op = "is_dir" =>
        (q.val <=> \/ q.arg = <<>>
                   \/ /\ q.arg \notin DOMAIN q_index.mapping
                      /\ FilesUnder(q_index, q.arg) \cup EmptiesUnder(q_index, q.arg) # {})

\* C15: subindex of a directory d with files below it succeeds; its mapping is
\* the mapping of the files below d with d removed from each key; its
\* empty_dirs are the empty directories below d with d removed; its hashes and
\* sizes are those of exactly the offsets its mapping uses; its magic_number
\* is that of the index.
C15_SubindexResult ==
    (q.op = "subindex" /\ FilesUnder(q_index, q.arg) # {}) =>
        LET n == Len(q.arg)
            offs == {q.val.mapping[k][1] : k \in DOMAIN q.val.mapping}
        IN /\ q.ok
           /\ DOMAIN q.val.mapping = {Below(k, n) : k \in FilesUnder(q_index, q.arg)}
           /\ \A k \in FilesUnder(q_index, q.arg) :
                q.val.mapping[Below(k, n)] = q_index.mapping[k]
           /\ Range(q.val.empty_dirs) = {Below(e, n) : e \in EmptiesUnder(q_index, q.arg)}
           /\ Len(q.val.empty_dirs) = Cardinality(EmptiesUnder(q_index, q.arg))
           /\ DOMAIN q.val.hashes = offs
           /\ DOMAIN q.val.sizes = offs
           /\ \A o \in offs : /\ q.val.hashes[o] = q_index.hashes[o]
                               /\ q.val.sizes[o] = q_index.sizes[o]
           /\ q.val.magic_number = q_index.magic_number

C15_Witness ==
    /\ q.op = "subindex"
    /\ q.arg = <<"d">>
    /\ q.ok
    /\ DOMAIN q_index.mapping = QFiles
    /\ Range(q_index.empty_dirs) = {<<"d", "g">>, <<"e">>}
    /\ Cardinality(DOMAIN q_index.hashes) = 2
    /\ DOMAIN q.val.mapping = {<<"b">>, <<"c">>}
    /\ q.val.empty_dirs = <<(<<"g">>)>>
    /\ Cardinality(DOMAIN q.val.hashes) = 1

\* C16: subindex of a path listed in empty_dirs is the empty index with the
\* magic_number of the index; subindex of a file path, or of a path that is
\* neither a prefix of a mapped file nor listed in empty_dirs, fails.
C16_SubindexEdgeCases ==
    q.op = "subindex" =>
        /\ q.arg \in Range(q_index.empty_dirs) =>
              /\ q.ok
              /\ q.val = [hashes |-> <<>>, mapping |-> <<>>, sizes |-> <<>>,
                          empty_dirs |-> <<>>, magic_number |-> q_index.magic_number]
        /\ q.arg \in DOMAIN q_index.mapping => ~q.ok
        /\ (FilesUnder(q_index, q.arg) = {} /\ q.arg \notin Range(q_index.empty_dirs)) => ~q.ok

C16_Witness ==
    /\ q.op = "subindex"
    /\ q.arg = <<"d", "g">>
    /\ q.arg \in Range(q_index.empty_dirs)
    /\ <<"d", "b">> \in DOMAIN q_index.mapping
    /\ q.ok
    /\ q.val.mapping = <<>>
    /\ q.val.magic_number = magic_number

\* Whether a name contains a pattern when the case of letters is ignored.
Fold(ch) == IF ch \in 65..90 THEN ch + 32 ELSE ch

Matches(name, pattern) ==
    \E off \in 0..(Len(name) - Len(pattern)) :
        \A j \in 1..Len(pattern) : Fold(name[off + j]) = Fold(pattern[j])

BasenameMatches(p, pattern) == Len(p) > 0 /\ Matches(to_str(p[Len(p)]), pattern)

\* C17: search(pattern) is the set of the mapping keys and empty_dirs entries
\* whose last component contains the pattern, case ignored, together with the
\* parent directory of every key or entry whose parent's last component
\* contains the pattern, and nothing else.
C17_Search ==
    q.op = "search" =>
        LET entries == (DOMAIN q_index.mapping) \cup Range(q_index.empty_dirs)
            parents == {[j \in 1..(Len(c) - 1) |-> c[j]] : c \in {e \in entries : Len(e) > 0}}
        IN q.val = {x \in entries \cup parents : BasenameMatches(x, q.arg)}

C17_Witness ==
    /\ q.op = "search"
    /\ q.arg = <<68>>
    /\ {<<"d", "b">>, <<"Ab">>} \subseteq DOMAIN q_index.mapping
    /\ <<"d", "g">> \in Range(q_index.empty_dirs)
    /\ q.val = {<<"d">>}

\* The bytes of the file of inode ino from offset on, at most size of them.
Window(ino, offset, size) ==
    LET source == files[ino_table[ino]]
    IN [j \in 1..Min(size, saturating_sub(Len(source), offset)) |-> source[offset + j]]

\* C18: a read of a file at an offset inside the file replies with the source
\* bytes from offset on, size of them or as many as the file has left, so that
\* reads tiling [0, file_size) concatenate to the source bytes; and whatever a
\* read replies is those bytes, whether it was served from the head cache,
\* from the full-body cache or from the archive, and whatever reads came
\* before.
C18_ReadCorrect ==
    (/\ reply.op = "read"
     /\ reply.ino \in DOMAIN ino_table
     /\ ino_table[reply.ino] \in DOMAIN files)
    => /\ reply.offset < Len(files[ino_table[reply.ino]]) => reply.kind = "data"
       /\ reply.kind = "data" => reply.data = Window(reply.ino, reply.offset, reply.size)

\* The distinct direct children of directory d: the first component below d
\* of every file and empty directory under it.
DirectChildren(idx, d) ==
    {SubSeq(x, 1, Len(d) + 1) :
        x \in {y \in (DOMAIN idx.mapping) \cup Range(idx.empty_dirs) :
                  StartsWith(y, d) /\ Len(y) > Len(d)}}

\* The reply is a run of the listing ".", "..", then the children of d sorted
\* by path, from position offset + 1 on: entry j carries the cookie
\* offset + j, the name of that position and the inode of the path named, and
\* the run is not empty unless the listing ends at offset.
ListsFrom(d) ==
    LET kids == DirectChildren(fs_index, d)
        rest == saturating_sub(2 + Cardinality(kids), reply.offset)
    IN /\ reply.kind = "data"
       /\ Len(reply.data) <= rest
       /\ rest > 0 => Len(reply.data) > 0
       /\ \A j \in DOMAIN reply.data :
             LET e == reply.data[j]
                 pos == reply.offset + j
             IN /\ e[2] = pos
                /\ pos = 1 => e[4] = "." /\ e[1] = reply.ino
                /\ pos = 2 => e[4] = ".."
                /\ pos > 2 => /\ d \o <<e[4]>> \in kids
                              /\ ino_table[e[1]] = d \o <<e[4]>>
                              /\ Cardinality({k \in kids : path_less(k, d \o <<e[4]>>)}) = pos - 3

\* C19: readdir of a directory inode, from any offset and with any room in
\* the reply buffer, replies the entries of the listing ".", "..", children
\* sorted by path, that follow the offset, each with its 1-based position as
\* the cookie; so resuming from the last cookie repeats and skips nothing.
C19_ReaddirListing ==
    (/\ reply.op = "readdir"
     /\ reply.ino \in DOMAIN ino_table
     /\ ~is_file(fs_index, ino_table[reply.ino]))
    => ListsFrom(ino_table[reply.ino])

\* The same for the directories that have a file somewhere below them.
C19_ListingAboveFiles ==
    (/\ reply.op = "readdir"
     /\ reply.ino \in DOMAIN ino_table
     /\ is_dir(fs_index, ino_table[reply.ino]))
    => ListsFrom(ino_table[reply.ino])

\* The child the loop of copy_directory is at has, at the destination, a file
\* with the stored digest.
DigestMatches ==
    LET c == r_children[r_i]
    IN /\ c \in DOMAIN dest
       /\ blake3_hash_streaming(dest[c]) = r_index.hashes[r_index.mapping[r_from \o c][1]]

\* C20: in a directory restore, a turn of the loop that does not fail skips
\* its file, reading no chunk and leaving the destination as it is, exactly
\* when trust is set and the destination file exists with the stored digest;
\* otherwise it reads the file's chunk and writes the file.  A directory
\* restore with trust set that follows a completed one reads no chunk and
\* leaves the destination unchanged.
C20_TrustSkips ==
    [][/\ (r_pc = "loop" /\ r_i <= Len(r_children) /\ r_pc' # "failed")
          => LET c == r_children[r_i]
             IN IF trust /\ DigestMatches
                THEN r_log' = r_log /\ dest' = dest /\ dest_dirs' = dest_dirs
                ELSE /\ r_log' = Append(r_log, r_from \o c)
                     /\ dest' = Put(dest, c, files[r_from \o c])
       /\ (r_run' >= 2 /\ trust' /\ is_dir(r_index, r_from))
          => r_log' = <<>> /\ dest' = dest /\ dest_dirs' = dest_dirs]_vars

\* A restore of the root with trust set, run after a completed restore, has
\* finished without calling stream_file for any of the three files.
C20_Witness ==
    /\ r_run = 2
    /\ trust
    /\ r_pc = "done"
    /\ r_from = <<>>
    /\ Len(r_children) = 3
    /\ r_log = <<>>
    /\ \A p \in DOMAIN files : dest[p] = files[p]

\* The sequences of a serialised index are of the lengths read_bin asks for.
WellFormedSer(ser) ==
    /\ Len(ser.hash_indices) = Len(ser.hashes)
    /\ Len(ser.hash_indices) = Len(ser.sizes)
    /\ Len(ser.map_indices) = Len(ser.maps)

\* C21: read_bin of what write_bin wrote for an index yields an index equal
\* to it in all five fields, and read_bin fails whenever the offsets, digests
\* and sizes sequences, or the mapping-values and mapping-keys sequences,
\* differ in length.
C21_CodecRoundTrip ==
    q.op = "read_bin"
    => /\ q.arg = write_bin(q_index)
          => /\ q.ok
             /\ DOMAIN q.val = DOMAIN q_index
             /\ \A f \in DOMAIN q_index : f \in DOMAIN q.val /\ q.val[f] = q_index[f]
       /\ ~WellFormedSer(q.arg) => ~q.ok

\* What does hold: the three fields the codec writes come back, and
\* sequences of differing lengths are refused.
C21_ThreeFields ==
    q.op = "read_bin"
    => /\ q.arg = write_bin(q_index)
          => /\ q.ok
             /\ \A f \in {"hashes", "sizes", "mapping"} : q.val[f] = q_index[f]
       /\ ~WellFormedSer(q.arg) => ~q.ok

\* The paths that need an inode: the root, every file, every empty directory
\* and every ancestor directory of either.
NeedInode ==
    {<<>>} \cup UNION {{SubSeq(p, 1, n) : n \in 0..Len(p)} :
                          p \in (DOMAIN fs_index.mapping) \cup Range(fs_index.empty_dirs)}

\* C22: after ZipuratFS::new, for every order of the keys and of the empty
\* directories, no two inodes name one path, inode 1 is the root, the paths
\* that have an inode are the root, the files, the empty directories and
\* their ancestors, and the inodes are 1..N.
C22_InodeTable ==
    reply.op = "new"
    => /\ \A a, b \in DOMAIN ino_table : ino_table[a] = ino_table[b] => a = b
       /\ 1 \in DOMAIN ino_table
       /\ ino_table[1] = <<>>
       /\ Range(ino_table) = NeedInode
       /\ DOMAIN ino_table = 1..Cardinality(NeedInode)

\* Mounted: two files and an empty directory under directories of their own,
\* one of them two directories deep, the deep one met first.
C22_Witness ==
    /\ reply.op = "new"
    /\ Cardinality(DOMAIN ino_table) >= 7
    /\ ino_table[2] = <<"e", "f", "a">>
    /\ ino_table[4] = <<"e">>
    /\ <<"d", "g">> \in Range(ino_table)
    /\ <<"d", "b">> \in Range(ino_table)

\* C23: the number of bytes a read of a file replies is the smaller of the
\* size asked for and what the file has left from the offset on, 0 at and
\* past the end; converting what is left to 32 bits takes nothing off it.
C23_ReadClamp ==
    (/\ reply.op = "read"
     /\ reply.ino \in DOMAIN ino_table
     /\ ino_table[reply.ino] \in DOMAIN files
     /\ reply.kind = "data")
    => Len(reply.data) = Min(reply.size,
                             saturating_sub(Len(files[ino_table[reply.ino]]), reply.offset))

\* The same for the files whose length a u32 holds.
C23_ClampBelowRange ==
    (/\ reply.op = "read"
     /\ reply.ino \in DOMAIN ino_table
     /\ ino_table[reply.ino] \in DOMAIN files
     /\ Len(files[ino_table[reply.ino]]) < U32_RANGE
     /\ reply.kind = "data")
    => Len(reply.data) = Min(reply.size,
                             saturating_sub(Len(files[ino_table[reply.ino]]), reply.offset))

\* C24: the full-body cache never holds more than max_file_number entries nor
\* an entry longer than max_file_size, and a read changes it, if at all, by
\* removing entries from its old end, only when it is full, and adding the
\* file read at its new end.
C24_CacheBudget ==
    [][/\ Len(read_cache') <= max_file_number
       /\ \A k \in DOMAIN read_cache' : Len(read_cache'[k][2]) <= max_file_size
       /\ \/ read_cache' = read_cache
          \/ \E n \in 0..Len(read_cache) :
                /\ n > 0 => Len(read_cache) >= max_file_number
                /\ read_cache' = Append(SubSeq(read_cache, n + 1, Len(read_cache)),
                                        <<ino_table[reply'.ino], files[ino_table[reply'.ino]]>>)]_vars

\* A full cache of two entries, the file read last at its new end, after the
\* oldest entry was evicted for it.
C24_Witness ==
    /\ max_file_number = 2
    /\ Len(read_cache) = 2
    /\ Len(evicted) = 1
    /\ read_cache[2][1] = ino_table[reply.ino]
    /\ ~cache_has(read_cache, evicted[1])

\* C25: whatever a lookup, getattr, readdir or read callback is called with,
\* it replies, with data or with ENOENT: none panics, as a slice outside its
\* buffer would make it.
C25_AlwaysReplies ==
    reply.op \in {"lookup", "getattr", "readdir", "read"} => reply.kind \in {"data", "ENOENT"}

\* The same for the callbacks other than a read past the end of its file.
C25_RepliesWithinFile ==
    (/\ reply.op \in {"lookup", "getattr", "readdir", "read"}
     /\ ~(/\ reply.op = "read"
          /\ reply.ino \in DOMAIN ino_table
          /\ ino_table[reply.ino] \in DOMAIN files
          /\ reply.offset > Len(files[ino_table[reply.ino]])))
    => reply.kind \in {"data", "ENOENT"}

\* The child entries <<inode, type, name>> a readdir of directory inode d
\* returned: those of the listing it left in the listing cache, after "."
\* and "..".
Listed(d) == {listing_cache[d][k] : k \in 3..Len(listing_cache[d])}

\* The last callback agrees with entry e of the listing of d: if it is the
\* lookup of e's name in d it replies attributes with e's inode and type, and
\* if it is the readdir of e, a directory, it replies a listing.
AgreesWith(d, e) ==
    /\ (reply.op = "lookup" /\ reply.ino = d /\ reply.name = e[3])
       => /\ reply.kind = "data"
          /\ reply.data.ino = e[1]
          /\ reply.data.kind = e[2]
    /\ (reply.op = "readdir" /\ reply.ino = e[1] /\ e[2] = "Directory")
       => reply.kind = "data"

\* C26: for every child entry that a readdir of a directory inode returned,
\* the lookup of its name in that directory succeeds with the same inode and
\* type, and the readdir of a child reported as a directory succeeds.
C26_ListingLookupConsistent ==
    \A d \in DOMAIN listing_cache : \A e \in Listed(d) : AgreesWith(d, e)

\* The same for the children that are files or have a file below them.
C26_ConsistentAboveFiles ==
    \A d \in DOMAIN listing_cache : \A e \in Listed(d) :
        (is_file(fs_index, ino_table[e[1]]) \/ is_dir(fs_index, ino_table[e[1]]))
        => AgreesWith(d, e)

====
